---- MODULE Spec2Model ----
(***************************************************************************)
(* Model of src/main.py: the payment-allocation engine reconcile_invoices  *)
(* and the per-company ledger generate_company_report.                     *)
(*                                                                         *)
(* A DataFrame is a sequence of records (one record per row, the position  *)
(* in the sequence is the row label).  Amounts are whole currency units.   *)
(* Dates are day numbers.                                                  *)
(***************************************************************************)
EXTENDS Integers, Sequences, FiniteSets, TLC

\* ---------------------------------------------------------------- bounds
NumInvoices == 2
NumPayments == 2
MaxAmount == 2

\* Invoice dates and payment dates (day numbers).
Dates == {1, 2}

\* Tax identifiers after clean_voen: a 10-digit string.
InvoiceVOENs == {"1234567890", "1111111111"}
PaymentVOENs == {"1234567890"}

\* Company names in ascending (groupby) order.
CompanyOrder == <<"Alfa MMC", "Beta MMC">>
Companies == {CompanyOrder[k] : k \in 1..Len(CompanyOrder)}

\* ------------------------------------------------------- program literals
\* 'Не оплачен', 'Оплачен частично', 'Оплачен полностью'
StatusUnpaid == "Unpaid"
StatusPartiallyPaid == "PartiallyPaid"
StatusFullyPaid == "FullyPaid"
\* 'Платеж без соответствия' and the prefix of f'Остаток платежа: {x:.2f}'
StatusNoMatch == "NoMatchFound"
StatusLeftover == "PartialLeftover"
\* Python None in a numeric column, and in a text column.
None == -1
NoneStr == "None"

VARIABLES
    invoices_df,            \* the invoices handed to the engine (load_invoices)
    bank_history_df,        \* the payments handed to the engine (load_bank_history)
    invoices_working_df,    \* the engine's working copy
    pc,                     \* position in the program
    index,                  \* row of bank_history_working_df being processed
    matching_invoices,      \* candidates not yet iterated: <<inv_idx, row snapshot>>
    current_payment_amount,
    payment_processed,
    reconciliation_results, \* the event list
    results_df,             \* the report rows after the pass
    sort_memo,              \* what sort_values returned for each key column so far
    run,                    \* 1 for the first call of the engine, 2 for a second one
    first_results,          \* the event list of the first call
    company_voen_map,       \* company -> list of distinct tax ids
    company_events,         \* company -> list of ledger events
    company_ledger          \* company -> rows written to the worksheet

vars == <<invoices_df, bank_history_df, invoices_working_df, pc, index,
          matching_invoices, current_payment_amount, payment_processed,
          reconciliation_results, results_df, sort_memo, run, first_results,
          company_voen_map, company_events, company_ledger>>

\* ------------------------------------------------------------- helpers
Min(a, b) == IF a <= b THEN a ELSE b

RECURSIVE SumSeq(_)
SumSeq(s) == IF s = <<>> THEN 0 ELSE Head(s) + SumSeq(Tail(s))

Perms(n) == {p \in [1..n -> 1..n] : \A a, b \in 1..n : a # b => p[a] # p[b]}


\* --------------------------------------------------------------- inputs
\* A row of the frame load_invoices returns: Remaining_Amount starts at
\* Total_Amount and Status at 'Не оплачен'.
InvoiceRow(num, voen, company, date, total) ==
    [Invoice_Num |-> num, VOEN |-> voen, Company_Name |-> company,
     Invoice_Date |-> date, Total_Amount |-> total,
     Remaining_Amount |-> total, Status |-> StatusUnpaid]

\* A row of the frame load_bank_history returns.
PaymentRow(voen, date, amount, description) ==
    [Payment_VOEN |-> voen, Payment_Date |-> date,
     Payment_Amount |-> amount, Description |-> description]

LastDate == CHOOSE d \in Dates : \A e \in Dates : e <= d

\* Invoice totals: nothing invoiced, the smallest amount, the largest one.
InvoiceTotals == {0, 1, MaxAmount}

\* Payment amounts: the smallest one, one equal to the largest invoice, one
\* that no single invoice absorbs.
PaymentAmounts == {1, MaxAmount, MaxAmount + 1}

\* Inputs of the allocation engine.  The engine copies Company_Name,
\* Payment_Date and Description into its events and never reads them, so
\* they are fixed here: one company, one payment date, the row number as memo.
AllocInvoiceFrames ==
    { [i \in 1..NumInvoices |->
          InvoiceRow(i, f[i][1], CompanyOrder[1], f[i][2], f[i][3])] :
      f \in [1..NumInvoices -> InvoiceVOENs \X Dates \X InvoiceTotals] }

AllocPaymentFrames ==
    { [k \in 1..NumPayments |-> PaymentRow(g[k][1], LastDate, g[k][2], k)] :
      g \in [1..NumPayments -> PaymentVOENs \X PaymentAmounts] }

\* ------------------------------------------------- reconcile_invoices
\* Faulty variant of CopyIsDeep: the working frame is the caller's frame.
CopyIsShallow == FALSE

\* invoices_df.copy(): a deep copy, the working frame shares nothing with
\* the caller's frame.
CopyIsDeep == TRUE

\* The caller's frame after a write to the working frame.
CallerFrame(caller, working) == IF CopyIsDeep THEN caller ELSE working

\* Faulty variant of FilterMatching: the tax id is not compared.
RECURSIVE FilterMatching_AnyVoen(_, _, _)
FilterMatching_AnyVoen(df, voen, k) ==
    IF k > Len(df) THEN <<>>
    ELSE IF df[k].Remaining_Amount > 0
         THEN <<k>> \o FilterMatching_AnyVoen(df, voen, k + 1)
         ELSE FilterMatching_AnyVoen(df, voen, k + 1)

\* Row labels of the rows with VOEN = voen and Remaining_Amount > 0, in
\* frame order, from row k on.
RECURSIVE FilterMatching(_, _, _)
FilterMatching(df, voen, k) ==
    IF k > Len(df) THEN <<>>
    ELSE IF df[k].VOEN = voen /\ df[k].Remaining_Amount > 0
         THEN <<k>> \o FilterMatching(df, voen, k + 1)
         ELSE FilterMatching(df, voen, k + 1)

\* Faulty variant of ArgSorts: the candidates are left in frame order.
ArgSorts_Unsorted(keys) == {[k \in 1..Len(keys) |-> k]}

\* sort_values(by=...) with the default kind='quicksort': the result is
\* ascending in the key, and the order of rows with equal keys is whatever
\* the sort produces (only kind='mergesort' and kind='stable' keep equal
\* keys in frame order; numpy's quicksort is an introsort that does so
\* only while it runs as an insertion sort, below 17 elements).  The frames
\* of the model stand for frames of any length.  Each p is one possible
\* argsort of keys.
ArgSorts(keys) ==
    {p \in Perms(Len(keys)) :
        \A a, b \in 1..Len(keys) : a < b => keys[p[a]] <= keys[p[b]]}

\* The sort is a function of the key column: the same keys give the same
\* order every time.
MemoAllows(keys, p) == \A m \in sort_memo : m.keys = keys => m.perm = p

\* Faulty variant of amount_to_apply: the min clamp is missing.
amount_to_apply_NoClamp(payment_amount, remaining) == payment_amount

amount_to_apply(payment_amount, remaining) == Min(payment_amount, remaining)

\* Faulty variant of NewStatus: the partial-payment branch is missing.
NewStatus_NoPartial(remaining, total, old) ==
    IF remaining <= 0 THEN StatusFullyPaid ELSE old

\* Lines 131-134: the status written after an allocation step.
NewStatus(remaining, total, old) ==
    IF remaining <= 0 THEN StatusFullyPaid
    ELSE IF remaining < total THEN StatusPartiallyPaid
    ELSE old

\* Faulty variant of MatchedEvent: the balance and status are read from the
\* candidate snapshot, taken before the update.
MatchedEvent_Stale(payment, invoice, applied, row) ==
    [Bank_Payment_Date |-> payment.Payment_Date,
     Bank_Payment_VOEN |-> payment.Payment_VOEN,
     Bank_Payment_Amount |-> payment.Payment_Amount,
     Bank_Description |-> payment.Description,
     Applied_Amount |-> applied,
     Invoice_Num |-> invoice.Invoice_Num,
     Invoice_VOEN |-> invoice.VOEN,
     Invoice_Company_Name |-> invoice.Company_Name,
     Invoice_Date |-> invoice.Invoice_Date,
     Invoice_Total_Amount |-> invoice.Total_Amount,
     Invoice_Remaining_Amount_After_Payment |-> invoice.Remaining_Amount,
     Invoice_Status |-> invoice.Status,
     Leftover |-> None]

\* Lines 141-154: the event of one allocation step; row is the invoice's
\* row of the working frame after the update.
MatchedEvent(payment, invoice, applied, row) ==
    [Bank_Payment_Date |-> payment.Payment_Date,
     Bank_Payment_VOEN |-> payment.Payment_VOEN,
     Bank_Payment_Amount |-> payment.Payment_Amount,
     Bank_Description |-> payment.Description,
     Applied_Amount |-> applied,
     Invoice_Num |-> invoice.Invoice_Num,
     Invoice_VOEN |-> invoice.VOEN,
     Invoice_Company_Name |-> invoice.Company_Name,
     Invoice_Date |-> invoice.Invoice_Date,
     Invoice_Total_Amount |-> invoice.Total_Amount,
     Invoice_Remaining_Amount_After_Payment |-> row.Remaining_Amount,
     Invoice_Status |-> row.Status,
     Leftover |-> None]

\* An event with no invoice side; leftover is the number the status text
\* of a partially used payment carries.
UnmatchedEvent(payment, applied, status, leftover) ==
    [Bank_Payment_Date |-> payment.Payment_Date,
     Bank_Payment_VOEN |-> payment.Payment_VOEN,
     Bank_Payment_Amount |-> payment.Payment_Amount,
     Bank_Description |-> payment.Description,
     Applied_Amount |-> applied,
     Invoice_Num |-> None,
     Invoice_VOEN |-> NoneStr,
     Invoice_Company_Name |-> NoneStr,
     Invoice_Date |-> None,
     Invoice_Total_Amount |-> None,
     Invoice_Remaining_Amount_After_Payment |-> None,
     Invoice_Status |-> status,
     Leftover |-> leftover]

NoMatchEvent(payment) == UnmatchedEvent(payment, 0, StatusNoMatch, None)

\* Faulty variant of LeftoverEvent: the whole payment is reported as applied.
LeftoverEvent_WholeApplied(payment, left) ==
    UnmatchedEvent(payment, payment.Payment_Amount, StatusLeftover, left)

LeftoverEvent(payment, left) ==
    UnmatchedEvent(payment, payment.Payment_Amount - left, StatusLeftover, left)

\* Faulty variant of RemainderEvents: a payment that matched nothing is dropped.
RemainderEvents_DropUnmatched(payment, left, processed) ==
    IF left > 0 /\ processed THEN <<LeftoverEvent(payment, left)>> ELSE <<>>

\* Lines 156-187: what is reported once the candidate loop is over.
RemainderEvents(payment, left, processed) ==
    IF left > 0 /\ ~processed THEN <<NoMatchEvent(payment)>>
    ELSE IF left > 0 /\ processed THEN <<LeftoverEvent(payment, left)>>
    ELSE <<>>

\* A trailing report row for an invoice that still has a balance.
UnpaidRow(row) ==
    [Bank_Payment_Date |-> None,
     Bank_Payment_VOEN |-> NoneStr,
     Bank_Payment_Amount |-> None,
     Bank_Description |-> None,
     Applied_Amount |-> None,
     Invoice_Num |-> row.Invoice_Num,
     Invoice_VOEN |-> row.VOEN,
     Invoice_Company_Name |-> row.Company_Name,
     Invoice_Date |-> row.Invoice_Date,
     Invoice_Total_Amount |-> row.Total_Amount,
     Invoice_Remaining_Amount_After_Payment |-> row.Remaining_Amount,
     Invoice_Status |-> row.Status,
     Leftover |-> None]

RECURSIVE UnpaidRows(_, _)
UnpaidRows(df, k) ==
    IF k > Len(df) THEN <<>>
    ELSE IF df[k].Remaining_Amount > 0
         THEN <<UnpaidRow(df[k])>> \o UnpaidRows(df, k + 1)
         ELSE UnpaidRows(df, k + 1)

reportVars == <<company_voen_map, company_events, company_ledger>>

\* Lines 101-108: the working copies and the empty result list.
BeginReconcile ==
    /\ pc = "start"
    /\ invoices_working_df' = invoices_df
    /\ reconciliation_results' = <<>>
    /\ index' = 1
    /\ pc' = "payment"
    /\ UNCHANGED <<invoices_df, bank_history_df, matching_invoices,
                   current_payment_amount, payment_processed, results_df,
                   sort_memo, run, first_results, reportVars>>

\* Lines 111-120: the next payment and its candidates, oldest first.
SelectCandidates ==
    /\ pc = "payment"
    /\ index <= Len(bank_history_df)
    /\ LET payment == bank_history_df[index]
           unsorted == FilterMatching(invoices_working_df,
                                      payment.Payment_VOEN, 1)
           keys == [k \in 1..Len(unsorted) |->
                       invoices_working_df[unsorted[k]].Invoice_Date]
       IN  /\ current_payment_amount' = payment.Payment_Amount
           /\ payment_processed' = FALSE
           /\ \E p \in ArgSorts(keys) :
                /\ MemoAllows(keys, p)
                /\ sort_memo' = sort_memo \cup {[keys |-> keys, perm |-> p]}
                /\ matching_invoices' =
                     [k \in 1..Len(unsorted) |->
                         [inv_idx |-> unsorted[p[k]],
                          invoice |-> invoices_working_df[unsorted[p[k]]]]]
    /\ pc' = "loop"
    /\ UNCHANGED <<invoices_df, bank_history_df, invoices_working_df, index,
                   reconciliation_results, results_df, run, first_results,
                   reportVars>>

\* Lines 122-154: one iteration of the candidate loop.
ApplyToInvoice ==
    /\ pc = "loop"
    /\ matching_invoices # <<>>
    /\ current_payment_amount > 0
    /\ LET payment == bank_history_df[index]
           inv_idx == Head(matching_invoices).inv_idx
           invoice == Head(matching_invoices).invoice
           applied == amount_to_apply(current_payment_amount,
                                      invoice.Remaining_Amount)
           old == invoices_working_df[inv_idx]
           remaining == old.Remaining_Amount - applied
           row == [old EXCEPT !.Remaining_Amount = remaining,
                              !.Status = NewStatus(remaining, old.Total_Amount,
                                                   old.Status)]
       IN  /\ invoices_working_df' =
                 [invoices_working_df EXCEPT ![inv_idx] = row]
           /\ invoices_df' = CallerFrame(invoices_df, invoices_working_df')
           /\ current_payment_amount' = current_payment_amount - applied
           /\ payment_processed' = TRUE
           /\ reconciliation_results' =
                 Append(reconciliation_results,
                        MatchedEvent(payment, invoice, applied, row))
    /\ matching_invoices' = Tail(matching_invoices)
    /\ UNCHANGED <<bank_history_df, pc, index, results_df, sort_memo, run,
                   first_results, reportVars>>

\* Lines 123-124 and 156-187: the loop ends (candidates exhausted, or the
\* payment used up) and the remainder of the payment is reported.
ReportRemainder ==
    /\ pc = "loop"
    /\ matching_invoices = <<>> \/ current_payment_amount <= 0
    /\ reconciliation_results' =
          reconciliation_results
          \o RemainderEvents(bank_history_df[index], current_payment_amount,
                             payment_processed)
    /\ index' = index + 1
    /\ pc' = "payment"
    /\ UNCHANGED <<invoices_df, bank_history_df, invoices_working_df,
                   matching_invoices, current_payment_amount,
                   payment_processed, results_df, sort_memo, run,
                   first_results, reportVars>>

\* Lines 190-243: the report rows, the events followed by the invoices
\* that still have a balance.
FinishReconcile ==
    /\ pc = "payment"
    /\ index > Len(bank_history_df)
    /\ results_df' = reconciliation_results \o UnpaidRows(invoices_working_df, 1)
    /\ pc' = "done"
    /\ UNCHANGED <<invoices_df, bank_history_df, invoices_working_df, index,
                   matching_invoices, current_payment_amount,
                   payment_processed, reconciliation_results, sort_memo, run,
                   first_results, reportVars>>

\* Lines 389-394: the state after both loaders, before the engine runs.
Init ==
    /\ invoices_df \in AllocInvoiceFrames
    /\ bank_history_df \in AllocPaymentFrames
    /\ invoices_working_df = invoices_df
    /\ pc = "start"
    /\ index = 1
    /\ matching_invoices = <<>>
    /\ current_payment_amount = 0
    /\ payment_processed = FALSE
    /\ reconciliation_results = <<>>
    /\ results_df = <<>>
    /\ sort_memo = {}
    /\ run = 1
    /\ first_results = <<>>
    /\ company_voen_map = <<>>
    /\ company_events = <<>>
    /\ company_ledger = <<>>

Next ==
    \/ BeginReconcile
    \/ SelectCandidates
    \/ ApplyToInvoice
    \/ ReportRemainder
    \/ FinishReconcile

Spec == Init /\ [][Next]_vars

\* ------------------------------------------------------- a second run
\* The engine is called again with the frames the first call was given.
Rerun ==
    /\ pc = "done"
    /\ run = 1
    /\ run' = 2
    /\ first_results' = reconciliation_results
    /\ pc' = "start"
    /\ UNCHANGED <<invoices_df, bank_history_df, invoices_working_df, index,
                   matching_invoices, current_payment_amount,
                   payment_processed, reconciliation_results, results_df,
                   sort_memo, reportVars>>

NextRerun ==
    \/ BeginReconcile
    \/ SelectCandidates
    \/ ApplyToInvoice
    \/ ReportRemainder
    \/ FinishReconcile
    \/ Rerun

SpecRerun == Init /\ [][NextRerun]_vars

\* ------------------------------------------- generate_company_report
\* Tax ids of the payments fed to the company report: one that invoices
\* carry and one that no invoice carries.
ReportPaymentVOENs == {"1234567890", "9999999999"}

ReportInvoiceFrames ==
    { [i \in 1..NumInvoices |->
          InvoiceRow(i, f[i][1], f[i][2], f[i][3], f[i][4])] :
      f \in [1..NumInvoices ->
                InvoiceVOENs \X Companies \X Dates \X {1, MaxAmount}] }

\* load_bank_history sorts the payments by date (line 87).
ReportPaymentFrames ==
    { [k \in 1..NumPayments |->
          PaymentRow(g[k][1], g[k][2], MaxAmount + 1, k)] :
      g \in {h \in [1..NumPayments -> ReportPaymentVOENs \X Dates] :
                \A a, b \in 1..NumPayments : a < b => h[a][2] <= h[b][2]} }

\* Series.unique(): the distinct tax ids of the company's invoices, in
\* order of first appearance, from row k on.
RECURSIVE UniqueVoens(_, _, _, _)
UniqueVoens(df, company, k, seen) ==
    IF k > Len(df) THEN <<>>
    ELSE IF df[k].Company_Name = company /\ df[k].VOEN \notin seen
         THEN <<df[k].VOEN>>
              \o UniqueVoens(df, company, k + 1, seen \cup {df[k].VOEN})
         ELSE UniqueVoens(df, company, k + 1, seen)

\* Line 288: groupby sorts its keys, so the dict lists the companies that
\* have invoices in ascending name order.
RECURSIVE VoenMap(_, _)
VoenMap(df, k) ==
    IF k > Len(CompanyOrder) THEN <<>>
    ELSE IF \E i \in 1..Len(df) : df[i].Company_Name = CompanyOrder[k]
         THEN <<[company |-> CompanyOrder[k],
                 voens |-> UniqueVoens(df, CompanyOrder[k], 1, {})]>>
              \o VoenMap(df, k + 1)
         ELSE VoenMap(df, k + 1)

InSeq(x, seq) == \E k \in 1..Len(seq) : seq[k] = x

\* Faulty variant of FirstCompany: the last company whose list holds the
\* tax id.
FirstCompany_Last(map, voen) ==
    IF \E k \in 1..Len(map) : InSeq(voen, map[k].voens)
    THEN map[CHOOSE k \in 1..Len(map) :
                /\ InSeq(voen, map[k].voens)
                /\ \A j \in 1..Len(map) :
                      InSeq(voen, map[j].voens) => j <= k].company
    ELSE NoneStr

\* Lines 309-319: the first company, in the dict's order, whose list holds
\* the tax id; NoneStr when the loop ends without a break.
FirstCompany(map, voen) ==
    IF \E k \in 1..Len(map) : InSeq(voen, map[k].voens)
    THEN map[CHOOSE k \in 1..Len(map) :
                /\ InSeq(voen, map[k].voens)
                /\ \A j \in 1..Len(map) :
                      InSeq(voen, map[j].voens) => k <= j].company
    ELSE NoneStr

\* company_events[company].append(event), the key created on first use;
\* the dict keeps its keys in insertion order.
AppendEvent(events, company, event) ==
    IF \E k \in 1..Len(events) : events[k].company = company
    THEN [k \in 1..Len(events) |->
             IF events[k].company = company
             THEN [events[k] EXCEPT !.events = Append(@, event)]
             ELSE events[k]]
    ELSE Append(events, [company |-> company, events |-> <<event>>])

\* Lines 294-303: the invoices as events, from row k on.
RECURSIVE AddInvoices(_, _, _)
AddInvoices(events, df, k) ==
    IF k > Len(df) THEN events
    ELSE AddInvoices(
             AppendEvent(events, df[k].Company_Name,
                         [Date |-> df[k].Invoice_Date, Type |-> "Invoice",
                          Amount |-> df[k].Total_Amount,
                          Description |-> <<"INV", df[k].Invoice_Num>>]),
             df, k + 1)

\* Lines 306-319: the payments as events, from row k on; a payment whose
\* tax id no company has is skipped.
RECURSIVE AddPayments(_, _, _, _)
AddPayments(events, map, bank, k) ==
    IF k > Len(bank) THEN events
    ELSE LET company == FirstCompany(map, bank[k].Payment_VOEN)
         IN  AddPayments(
                 IF company = NoneStr THEN events
                 ELSE AppendEvent(events, company,
                                  [Date |-> bank[k].Payment_Date,
                                   Type |-> "Payment",
                                   Amount |-> bank[k].Payment_Amount,
                                   Description |-> bank[k].Description]),
                 map, bank, k + 1)

\* list.sort(key=Date) is stable: event goes after the events of its date.
RECURSIVE InsertByDate(_, _)
InsertByDate(sorted, event) ==
    IF sorted = <<>> THEN <<event>>
    ELSE IF event.Date < Head(sorted).Date THEN <<event>> \o sorted
         ELSE <<Head(sorted)>> \o InsertByDate(Tail(sorted), event)

RECURSIVE SortByDate(_)
SortByDate(events) ==
    IF events = <<>> THEN <<>>
    ELSE InsertByDate(SortByDate(SubSeq(events, 1, Len(events) - 1)),
                      events[Len(events)])

\* Lines 360 and 365: invoices count up, payments count down.
SignedAmount(event) ==
    IF event.Type = "Invoice" THEN event.Amount ELSE -event.Amount

\* event['Date'].strftime('%d-%m-%Y'): the text of the date.
Strftime(date) == <<"%d-%m-%Y", date>>

\* Lines 357-368: the rows of one company, balance carried from row to row.
RECURSIVE LedgerRows(_, _)
LedgerRows(events, balance) ==
    IF events = <<>> THEN <<>>
    ELSE LET b == balance + SignedAmount(Head(events))
         IN  <<[Date |-> Strftime(Head(events).Date),
                Description |-> Head(events).Description,
                Amount |-> SignedAmount(Head(events)),
                Balance |-> b]>>
             \o LedgerRows(Tail(events), b)

\* Lines 342-372: one block of the worksheet: header, tax ids, rows, total.
LedgerBlock(entry, map) ==
    LET rows == LedgerRows(entry.events, 0)
        mine == {k \in 1..Len(map) : map[k].company = entry.company}
    IN  [company |-> entry.company,
         voens |-> IF mine = {} THEN <<>>
                   ELSE map[CHOOSE k \in mine : TRUE].voens,
         rows |-> rows,
         total |-> IF rows = <<>> THEN 0 ELSE rows[Len(rows)].Balance]

\* Lines 287-323: the tax-id map and the date-sorted events of each company.
CollectCompanyEvents ==
    /\ pc = "report"
    /\ company_voen_map' = VoenMap(invoices_df, 1)
    /\ company_events' =
          LET collected == AddPayments(AddInvoices(<<>>, invoices_df, 1),
                                       company_voen_map', bank_history_df, 1)
          IN  [k \in 1..Len(collected) |->
                  [collected[k] EXCEPT !.events = SortByDate(@)]]
    /\ pc' = "write"
    /\ UNCHANGED <<invoices_df, bank_history_df, invoices_working_df, index,
                   matching_invoices, current_payment_amount,
                   payment_processed, reconciliation_results, results_df,
                   sort_memo, run, first_results, company_ledger>>

\* Lines 329-381: the worksheet.
WriteCompanyLedger ==
    /\ pc = "write"
    /\ company_ledger' =
          [k \in 1..Len(company_events) |->
              LedgerBlock(company_events[k], company_voen_map)]
    /\ pc' = "reported"
    /\ UNCHANGED <<invoices_df, bank_history_df, invoices_working_df, index,
                   matching_invoices, current_payment_amount,
                   payment_processed, reconciliation_results, results_df,
                   sort_memo, run, first_results, company_voen_map,
                   company_events>>

\* Line 397: the state in which generate_company_report is entered.
InitReport ==
    /\ invoices_df \in ReportInvoiceFrames
    /\ bank_history_df \in ReportPaymentFrames
    /\ invoices_working_df = invoices_df
    /\ pc = "report"
    /\ index = 1
    /\ matching_invoices = <<>>
    /\ current_payment_amount = 0
    /\ payment_processed = FALSE
    /\ reconciliation_results = <<>>
    /\ results_df = <<>>
    /\ sort_memo = {}
    /\ run = 1
    /\ first_results = <<>>
    /\ company_voen_map = <<>>
    /\ company_events = <<>>
    /\ company_ledger = <<>>

NextReport ==
    \/ CollectCompanyEvents
    \/ WriteCompanyLedger

SpecReport == InitReport /\ [][NextReport]_vars

\* ------------------------------------------------- views used by the claims
IsMatched(e) == e.Invoice_Num # None
IsNoMatch(e) == e.Invoice_Status = StatusNoMatch
IsLeftover(e) == e.Invoice_Status = StatusLeftover

\* The prefix of the event list up to event j.
EventsUpTo(j) == SubSeq(reconciliation_results, 1, j)

\* Sum of Applied_Amount over the MatchedToInvoice events of `events`
\* that reference invoice number num.
RECURSIVE AppliedToInvoice(_, _)
AppliedToInvoice(events, num) ==
    IF events = <<>> THEN 0
    ELSE (IF Head(events).Invoice_Num = num
          THEN Head(events).Applied_Amount ELSE 0)
         + AppliedToInvoice(Tail(events), num)

\* Sum of Applied_Amount over the MatchedToInvoice events of payment memo.
RECURSIVE AppliedFromPayment(_, _)
AppliedFromPayment(events, memo) ==
    IF events = <<>> THEN 0
    ELSE (IF IsMatched(Head(events)) /\ Head(events).Bank_Description = memo
          THEN Head(events).Applied_Amount ELSE 0)
         + AppliedFromPayment(Tail(events), memo)

\* The events of payment memo, as positions in the event list.
EventsOf(memo) ==
    {j \in 1..Len(reconciliation_results) :
        reconciliation_results[j].Bank_Description = memo}

\* Payments whose processing is complete.
Processed == 1..(index - 1)

\* The status the balance stands for.
DerivedStatus(remaining, total) ==
    IF remaining <= 0 THEN StatusFullyPaid
    ELSE IF remaining < total THEN StatusPartiallyPaid
    ELSE StatusUnpaid

\* Invoices that are candidates for the payment being processed, read off
\* the working frame.
Outstanding(voen) ==
    {i \in 1..Len(invoices_working_df) :
        /\ invoices_working_df[i].VOEN = voen
        /\ invoices_working_df[i].Remaining_Amount > 0}

OldestOutstanding(voen) ==
    {i \in Outstanding(voen) :
        \A j \in Outstanding(voen) :
            invoices_working_df[i].Invoice_Date
                <= invoices_working_df[j].Invoice_Date}

\* The payment has been selected and nothing of it has been applied yet.
JustSelected ==
    /\ pc = "loop"
    /\ ~payment_processed
    /\ current_payment_amount = bank_history_df[index].Payment_Amount

\* C1: in every state of the allocation run every invoice of the working
\* frame has 0 <= Remaining_Amount <= Total_Amount.
C1_NoOverAllocation ==
    \A i \in 1..Len(invoices_working_df) :
        /\ 0 <= invoices_working_df[i].Remaining_Amount
        /\ invoices_working_df[i].Remaining_Amount
               <= invoices_working_df[i].Total_Amount

\* C1 witness: a payment larger than an invoice's balance was clamped, the
\* invoice is paid off and part of the payment is left.
C1_Witness ==
    /\ pc = "loop"
    /\ payment_processed
    /\ current_payment_amount > 0
    /\ \E i \in 1..Len(invoices_working_df) :
          /\ invoices_working_df[i].Total_Amount > 0
          /\ invoices_working_df[i].Remaining_Amount = 0

\* C2: after every prefix of the run, Total_Amount - Remaining_Amount of
\* every invoice is the sum of Applied_Amount over the MatchedToInvoice
\* events that reference it, and each such event records the balance the
\* invoice had right after it (the total less everything applied up to
\* and including that event).
C2_InvoiceConservation ==
    /\ \A i \in 1..Len(invoices_working_df) :
          invoices_working_df[i].Total_Amount
              - invoices_working_df[i].Remaining_Amount
          = AppliedToInvoice(reconciliation_results,
                             invoices_working_df[i].Invoice_Num)
    /\ \A j \in 1..Len(reconciliation_results) :
          LET e == reconciliation_results[j]
          IN  IsMatched(e) =>
                e.Invoice_Remaining_Amount_After_Payment
                = e.Invoice_Total_Amount
                  - AppliedToInvoice(EventsUpTo(j), e.Invoice_Num)

\* C2 witness: one invoice has been paid down by two different payments.
C2_Witness ==
    \E a, b \in 1..Len(reconciliation_results) :
        /\ a < b
        /\ IsMatched(reconciliation_results[a])
        /\ reconciliation_results[a].Invoice_Num
               = reconciliation_results[b].Invoice_Num
        /\ reconciliation_results[a].Bank_Description
               # reconciliation_results[b].Bank_Description

\* The leftover a processed payment reports: the whole amount with
\* NoMatchFound, the noted remainder with PartialLeftover, 0 with neither.
ReportedLeftover(memo) ==
    LET tail == {j \in EventsOf(memo) :
                    ~IsMatched(reconciliation_results[j])}
    IN  IF tail = {} THEN 0
        ELSE LET e == reconciliation_results[CHOOSE j \in tail : TRUE]
             IN  IF IsNoMatch(e) THEN e.Bank_Payment_Amount ELSE e.Leftover

\* C3: for every processed payment, Payment_Amount is the sum of
\* Applied_Amount over its MatchedToInvoice events plus its reported
\* leftover; it has at most one NoMatchFound or PartialLeftover event, and
\* a PartialLeftover event's Applied_Amount is the amount less the leftover.
C3_PaymentConservation ==
    \A k \in Processed :
        LET amount == bank_history_df[k].Payment_Amount
            tail == {j \in EventsOf(k) :
                        ~IsMatched(reconciliation_results[j])}
        IN  /\ Cardinality(tail) <= 1
            /\ amount = AppliedFromPayment(reconciliation_results, k)
                        + ReportedLeftover(k)
            /\ \A j \in tail :
                  LET e == reconciliation_results[j]
                  IN  /\ IsNoMatch(e) \/ IsLeftover(e)
                      /\ IsNoMatch(e) =>
                            AppliedFromPayment(reconciliation_results, k) = 0
                      /\ IsLeftover(e) =>
                            e.Applied_Amount = amount - e.Leftover

\* C3 witness: a processed payment was split over two invoices and still
\* left a remainder.
C3_Witness ==
    \E k \in Processed :
        /\ Cardinality({j \in EventsOf(k) :
                           IsMatched(reconciliation_results[j])}) >= 2
        /\ \E j \in EventsOf(k) : IsLeftover(reconciliation_results[j])

\* C4: when a payment is selected while two invoices with its tax id are
\* outstanding with dates D1 < D2 and the payment is smaller than the
\* balance of the oldest outstanding invoice, the next step applies the
\* whole payment to an oldest invoice in one MatchedToInvoice event and
\* leaves every later-dated outstanding invoice as it was; a payment that
\* is used up ends with no further event and no further change.
C4_OldestFirst ==
    [][ /\ ( /\ JustSelected
             /\ LET voen == bank_history_df[index].Payment_VOEN
                IN  /\ \E i, j \in Outstanding(voen) :
                          invoices_working_df[i].Invoice_Date
                              < invoices_working_df[j].Invoice_Date
                    /\ \A o \in OldestOutstanding(voen) :
                          current_payment_amount
                              < invoices_working_df[o].Remaining_Amount )
           => LET voen == bank_history_df[index].Payment_VOEN
                  n == Len(reconciliation_results)
              IN  /\ Len(reconciliation_results') = n + 1
                  /\ SubSeq(reconciliation_results', 1, n)
                         = reconciliation_results
                  /\ reconciliation_results'[n + 1].Applied_Amount
                         = bank_history_df[index].Payment_Amount
                  /\ \E o \in OldestOutstanding(voen) :
                        reconciliation_results'[n + 1].Invoice_Num
                            = invoices_working_df[o].Invoice_Num
                  /\ current_payment_amount' = 0
                  /\ \A j \in Outstanding(voen) \ OldestOutstanding(voen) :
                        invoices_working_df'[j] = invoices_working_df[j]
        /\ ( /\ pc = "loop"
             /\ payment_processed
             /\ current_payment_amount = 0 )
           => /\ reconciliation_results' = reconciliation_results
              /\ invoices_working_df' = invoices_working_df
      ]_vars

\* C4 witness: the payment went whole to the older of two outstanding
\* invoices, and the later-dated one, which comes first in the frame, still
\* has its full balance and status.
C4_Witness ==
    /\ pc = "payment"
    /\ index = 2
    /\ Len(reconciliation_results) = 1
    /\ \E i, j \in 1..Len(invoices_working_df) :
          /\ j < i
          /\ invoices_working_df[i].VOEN = invoices_working_df[j].VOEN
          /\ invoices_working_df[i].Invoice_Date
                 < invoices_working_df[j].Invoice_Date
          /\ reconciliation_results[1].Invoice_Num
                 = invoices_working_df[i].Invoice_Num
          /\ reconciliation_results[1].Applied_Amount
                 = bank_history_df[1].Payment_Amount
          /\ invoices_working_df[i].Status = StatusPartiallyPaid
          /\ invoices_working_df[j].Remaining_Amount
                 = invoices_working_df[j].Total_Amount
          /\ invoices_working_df[j].Total_Amount > 0
          /\ invoices_working_df[j].Status = StatusUnpaid

\* C5: every processed payment has at least one event; a payment selected
\* while no invoice with its tax id is outstanding gets, as its next step,
\* one NoMatchFound event with Applied_Amount 0 and no invoice reference,
\* and that is its only event.
C5_UnmatchedReported ==
    /\ [](\A k \in Processed :
             /\ EventsOf(k) # {}
             /\ \A j \in EventsOf(k) :
                   IsNoMatch(reconciliation_results[j]) => EventsOf(k) = {j})
    /\ [][ ( /\ JustSelected
             /\ Outstanding(bank_history_df[index].Payment_VOEN) = {} )
           => /\ reconciliation_results'
                    = Append(reconciliation_results,
                             reconciliation_results'[
                                 Len(reconciliation_results')])
              /\ LET e == reconciliation_results'[Len(reconciliation_results')]
                 IN  /\ IsNoMatch(e)
                     /\ e.Applied_Amount = 0
                     /\ e.Invoice_Num = None
                     /\ e.Bank_Description
                            = bank_history_df[index].Description
              /\ index' = index + 1
         ]_vars

\* C5 witness: a processed payment whose only event is NoMatchFound while an
\* invoice of another tax id is still outstanding.
C5_Witness ==
    \E k \in Processed :
        /\ \E j \in EventsOf(k) : IsNoMatch(reconciliation_results[j])
        /\ \E i \in 1..Len(invoices_working_df) :
              /\ invoices_working_df[i].VOEN # bank_history_df[k].Payment_VOEN
              /\ invoices_working_df[i].Remaining_Amount > 0

\* C8: two MatchedToInvoice events of one payment on invoices of equal date
\* come in the order the invoices have in the input frame.
C8_StableTieBreak ==
    \A a, b \in 1..Len(reconciliation_results) :
        LET ea == reconciliation_results[a]
            eb == reconciliation_results[b]
        IN  ( /\ a < b
              /\ IsMatched(ea)
              /\ IsMatched(eb)
              /\ ea.Bank_Description = eb.Bank_Description
              /\ ea.Invoice_Date = eb.Invoice_Date )
            => ea.Invoice_Num < eb.Invoice_Num

\* C9 as stated: every invoice of the working frame, whatever its total,
\* has the status its balance stands for, and so has every MatchedToInvoice
\* event.
C9_StatusDerived_AsStated ==
    /\ \A i \in 1..Len(invoices_working_df) :
          invoices_working_df[i].Status
          = DerivedStatus(invoices_working_df[i].Remaining_Amount,
                          invoices_working_df[i].Total_Amount)
    /\ \A j \in 1..Len(reconciliation_results) :
          LET e == reconciliation_results[j]
          IN  IsMatched(e) =>
                e.Invoice_Status
                = DerivedStatus(e.Invoice_Remaining_Amount_After_Payment,
                                e.Invoice_Total_Amount)

\* C9 amended: every invoice with Total_Amount > 0 has the status its
\* balance stands for in every state of the run, targeted by a payment or
\* not, and every MatchedToInvoice event records the status derived from
\* its Invoice_Remaining_Amount_After_Payment; an invoice with
\* Total_Amount = 0 is never a candidate and keeps the status Unpaid.
C9_StatusDerived ==
    /\ \A i \in 1..Len(invoices_working_df) :
          invoices_working_df[i].Status
          = IF invoices_working_df[i].Total_Amount > 0
            THEN DerivedStatus(invoices_working_df[i].Remaining_Amount,
                               invoices_working_df[i].Total_Amount)
            ELSE StatusUnpaid
    /\ \A j \in 1..Len(reconciliation_results) :
          LET e == reconciliation_results[j]
          IN  IsMatched(e) =>
                /\ e.Invoice_Total_Amount > 0
                /\ e.Invoice_Status
                   = DerivedStatus(e.Invoice_Remaining_Amount_After_Payment,
                                   e.Invoice_Total_Amount)

\* C9 witness: the run is over with one invoice paid in part, one paid in
\* full or untouched, and events for both written statuses.
C9_Witness ==
    /\ pc = "done"
    /\ \E i \in 1..Len(invoices_working_df) :
          invoices_working_df[i].Status = StatusPartiallyPaid
    /\ \E j \in 1..Len(reconciliation_results) :
          reconciliation_results[j].Invoice_Status = StatusFullyPaid
    /\ \E j \in 1..Len(reconciliation_results) :
          reconciliation_results[j].Invoice_Status = StatusPartiallyPaid

\* C10: right after a payment has been processed, if part of it is
\* unapplied then no invoice with its tax id has a balance left: a
\* NoMatchFound or PartialLeftover event is the last event only in such a
\* state; and every MatchedToInvoice event is on an invoice whose tax id is
\* the payment's.
C10_GreedyComplete ==
    /\ ( /\ pc = "payment"
         /\ index > 1
         /\ \/ current_payment_amount > 0
            \/ /\ reconciliation_results # <<>>
               /\ ~IsMatched(reconciliation_results[
                                 Len(reconciliation_results)]) )
       => \A i \in 1..Len(invoices_working_df) :
             invoices_working_df[i].VOEN
                 = bank_history_df[index - 1].Payment_VOEN
             => invoices_working_df[i].Remaining_Amount = 0
    /\ \A j \in 1..Len(reconciliation_results) :
          LET e == reconciliation_results[j]
          IN  IsMatched(e) =>
                /\ e.Invoice_VOEN = e.Bank_Payment_VOEN
                /\ invoices_df[e.Invoice_Num].VOEN
                       = bank_history_df[e.Bank_Description].Payment_VOEN

\* C10 witness: a payment ended with a PartialLeftover event while an
\* invoice of another tax id keeps a balance.
C10_Witness ==
    /\ pc = "payment"
    /\ index > 1
    /\ current_payment_amount > 0
    /\ payment_processed
    /\ IsLeftover(reconciliation_results[Len(reconciliation_results)])
    /\ \E i \in 1..Len(invoices_working_df) :
          /\ invoices_working_df[i].VOEN
                 # bank_history_df[index - 1].Payment_VOEN
          /\ invoices_working_df[i].Remaining_Amount > 0

\* C7: the engine leaves the frame it was given as it was loaded (every
\* invoice with Remaining_Amount = Total_Amount and status Unpaid), and a
\* second run on the same frames emits the first run's events one by one:
\* its event list is at every moment a prefix of the first run's list and
\* is equal to it when the run is over.
C7_IdempotentRerun ==
    /\ \A i \in 1..Len(invoices_df) :
          /\ invoices_df[i].Remaining_Amount = invoices_df[i].Total_Amount
          /\ invoices_df[i].Status = StatusUnpaid
    /\ (run = 2 /\ pc # "start") =>
          /\ Len(reconciliation_results) <= Len(first_results)
          /\ reconciliation_results
                 = SubSeq(first_results, 1, Len(reconciliation_results))
    /\ (run = 2 /\ pc = "done") => reconciliation_results = first_results

\* C7 witness: the second run is over, and the runs paid invoices down and
\* emitted several events.
C7_Witness ==
    /\ run = 2
    /\ pc = "done"
    /\ Len(first_results) >= 3
    /\ \E i \in 1..Len(invoices_working_df) :
          invoices_working_df[i].Remaining_Amount
              < invoices_working_df[i].Total_Amount

\* The tax ids on the invoices of a company.
CompanyVoenSet(company) ==
    {invoices_df[i].VOEN :
        i \in {j \in 1..Len(invoices_df) :
                  invoices_df[j].Company_Name = company}}

Rank(company) ==
    CHOOSE k \in 1..Len(CompanyOrder) : CompanyOrder[k] = company

\* The payment's tax id is on the company's invoices.
PaysTo(payment, company) == payment.Payment_VOEN \in CompanyVoenSet(company)

\* The company is the first, in ascending name order, that the payment
\* pays to.
PaysFirstTo(payment, company) ==
    /\ PaysTo(payment, company)
    /\ \A other \in Companies :
          PaysTo(payment, other) => Rank(company) <= Rank(other)

\* I: the sum of Total_Amount over the company's invoices, from row k on.
RECURSIVE Invoiced(_, _)
Invoiced(company, k) ==
    IF k > Len(invoices_df) THEN 0
    ELSE (IF invoices_df[k].Company_Name = company
          THEN invoices_df[k].Total_Amount ELSE 0)
         + Invoiced(company, k + 1)

\* P as stated: the sum of Payment_Amount over the payments whose tax id is
\* in the company's set, from row k on.
RECURSIVE PaidAsStated(_, _)
PaidAsStated(company, k) ==
    IF k > Len(bank_history_df) THEN 0
    ELSE (IF PaysTo(bank_history_df[k], company)
          THEN bank_history_df[k].Payment_Amount ELSE 0)
         + PaidAsStated(company, k + 1)

\* P amended: only the payments the company is the first to own.
RECURSIVE PaidFirst(_, _)
PaidFirst(company, k) ==
    IF k > Len(bank_history_df) THEN 0
    ELSE (IF PaysFirstTo(bank_history_df[k], company)
          THEN bank_history_df[k].Payment_Amount ELSE 0)
         + PaidFirst(company, k + 1)

RowAmounts(rows) == [k \in 1..Len(rows) |-> rows[k].Amount]

\* One block per company that has invoices; in each block the rows are in
\* ascending date order, as many as the company has events, and the
\* balance of row k is the sum of the signed amounts of rows 1..k.
RunningBalances ==
    /\ {company_ledger[b].company : b \in 1..Len(company_ledger)}
       = {invoices_df[i].Company_Name : i \in 1..Len(invoices_df)}
    /\ \A a, b \in 1..Len(company_ledger) :
          a # b => company_ledger[a].company # company_ledger[b].company
    /\ \A b \in 1..Len(company_ledger) :
          LET rows == company_ledger[b].rows
          IN  /\ Len(rows) = Len(company_events[b].events)
              /\ \A k \in 1..Len(rows) :
                    /\ rows[k].Balance
                       = SumSeq(SubSeq(RowAmounts(rows), 1, k))
                    /\ rows[k].Date = Strftime(company_events[b].events[k].Date)
                    /\ k > 1 => company_events[b].events[k - 1].Date
                                    <= company_events[b].events[k].Date

\* C6 as stated: the running balances are prefix sums in date order and
\* the final balance of every company is I - P, P summed over the payments
\* whose tax id is in the company's tax-id set.
C6_CompanyBalance_AsStated ==
    pc = "reported" =>
        /\ RunningBalances
        /\ \A b \in 1..Len(company_ledger) :
              company_ledger[b].total
              = Invoiced(company_ledger[b].company, 1)
                - PaidAsStated(company_ledger[b].company, 1)

\* C6 amended: the running balances are prefix sums in date order and the
\* final balance of every company is I - P, P summed over the payments
\* whose tax id is in the company's tax-id set and in the set of no company
\* that comes before it in ascending name order; a payment counts for one
\* company only.
C6_CompanyBalance ==
    pc = "reported" =>
        /\ RunningBalances
        /\ \A b \in 1..Len(company_ledger) :
              /\ company_ledger[b].total
                 = Invoiced(company_ledger[b].company, 1)
                   - PaidFirst(company_ledger[b].company, 1)
              /\ Cardinality({k \in 1..Len(company_ledger[b].rows) :
                                 company_ledger[b].rows[k].Amount < 0})
                 = Cardinality({k \in 1..Len(bank_history_df) :
                                   PaysFirstTo(bank_history_df[k],
                                               company_ledger[b].company)})

\* C6 witness: two companies share a tax id, a payment carries it, and the
\* report is written with the payment in the first company's block only.
C6_Witness ==
    /\ pc = "reported"
    /\ Len(company_ledger) = 2
    /\ \E k \in 1..Len(bank_history_df) :
          /\ PaysTo(bank_history_df[k], CompanyOrder[1])
          /\ PaysTo(bank_history_df[k], CompanyOrder[2])
    /\ \E b \in 1..Len(company_ledger) :
          /\ company_ledger[b].company = CompanyOrder[2]
          /\ company_ledger[b].total = Invoiced(CompanyOrder[2], 1)
    /\ \E b \in 1..Len(company_ledger) :
          /\ company_ledger[b].company = CompanyOrder[1]
          /\ company_ledger[b].total < Invoiced(CompanyOrder[1], 1)

====
